---- MODULE Spec2Model ----
(***************************************************************************)
(* GEX/DEX calculator (gex_calculator.py) and its dashboard caller.        *)
(*                                                                         *)
(* Numbers.  The program computes in binary floating point; the model      *)
(* computes the same expressions exactly, in fixed point:                  *)
(*   prices, strikes, LTPs   rupees                                        *)
(*   implied volatility      1/IVOne        (IVOne = 1.0, so 15% is 1500)  *)
(*   delta                   1/DeltaOne     (DeltaOne = 1.0)               *)
(*   gamma                   1/1000                                        *)
(*   open interest           lots of contracts                             *)
(*   GEX, DEX                gamma*OI*(S/100)^2 and delta*OI*(S/100): the  *)
(*                           source's factor 0.01 (and 1e9 of the _B       *)
(*                           columns) is a positive constant of the unit.  *)
(* Underlying prices of the model are multiples of 100 rupees, so S/100 is *)
(* exact.                                                                  *)
(***************************************************************************)
EXTENDS Integers, Sequences, FiniteSets, TLC

VARIABLES
    pc,        \* the call that has completed: "idle" (none yet), "fetch", "parse", "flow", "flip"
    req,       \* the arguments of that call and what its environment answered
    out        \* what that call returned, or that it raised

vars == <<pc, req, out>>

----------------------------------------------------------------------------
(* Generic helpers *)

Range(s) == {s[i] : i \in DOMAIN s}

Abs(x) == IF x < 0 THEN -x ELSE x

Max2(a, b) == IF a >= b THEN a ELSE b

Min2(a, b) == IF a <= b THEN a ELSE b

\* F applied to the value of v, which is computed once.
Let(v, F(_)) == CHOOSE r \in {F(x) : x \in {v}} : TRUE

RECURSIVE SumSeq(_)
SumSeq(s) == IF s = <<>> THEN 0 ELSE Head(s) + SumSeq(Tail(s))

MapValue(s, F(_)) == [i \in DOMAIN s |-> F(s[i])]

Map(s, F(_)) == Let(s, LAMBDA t : MapValue(t, F))

\* All sequences of exactly n elements of S, and of at most n, in which no
\* two elements have the same Key. Keys(s) are the keys of a sequence.
RECURSIVE SeqsOfLen(_, _, _)
SeqsOfLen(S, n, Keys) ==
    IF n = 0 THEN {<<>>}
    ELSE UNION {{Append(s, e) : e \in {x \in S : Keys[x] \notin {Keys[s[i]] : i \in DOMAIN s}}} :
                  s \in SeqsOfLen(S, n - 1, Keys)}

SeqsUpTo(S, n, Key(_)) ==
    Let([x \in S |-> Key(x)], LAMBDA Keys : UNION {SeqsOfLen(S, k, Keys) : k \in 0..n})

----------------------------------------------------------------------------
(* JSON values of the provider's response, as Python sees them.            *)

Num(v)  == [t |-> "num", v |-> v]
Missing == [t |-> "missing", v |-> 0]     \* the key is absent
Null    == [t |-> "null", v |-> 0]        \* JSON null, Python None
Text    == [t |-> "text", v |-> 0]        \* a string that is no number

\* A call that raised: the caller gets an exception and no value.
Raised == [st |-> "raised"]

IVOne == 100 * 100
DeltaOne == 10 * 10

\* d.get(key, default) followed by int(...) or float(...):
\* "ok" with the number, or the exception class raised.
Convert(field, default) ==
    CASE field.t = "missing" -> [st |-> "ok", v |-> default]
      [] field.t = "num"     -> [st |-> "ok", v |-> field.v]
      [] field.t = "null"    -> [st |-> "TypeError", v |-> 0]
      [] OTHER               -> [st |-> "ValueError", v |-> 0]

\* First exception raised by a list of conversions evaluated in order.
RECURSIVE FirstError(_)
FirstError(cs) ==
    IF cs = <<>> THEN "ok"
    ELSE IF Head(cs).st # "ok" THEN Head(cs).st
    ELSE FirstError(Tail(cs))

\* `x.get(...)` on x: an attribute error unless x is a mapping.
\* A missing 'ce'/'pe'/'greeks' key was replaced by the default {}.
IsMapping(x) == x.t \in {"map", "missing"}

DefaultIV == 15 * IVOne

\* gex_calculator.py 205-216 (ce) and 219-230 (pe): one leg of a strike entry.
ParseLeg(leg) ==
    IF ~IsMapping(leg) THEN [st |-> "AttributeError"]
    ELSE
    LET f(name) == IF leg.t = "missing" THEN Missing ELSE leg[name]
        oi  == Convert(f("oi"), 0)
        iv  == Convert(f("implied_volatility"), DefaultIV)
        ltp == Convert(f("last_price"), 0)
        vol == Convert(f("volume"), 0)
        e1  == FirstError(<<oi, iv, ltp, vol>>)
        greeks == IF leg.t = "missing" THEN [t |-> "missing"] ELSE leg.greeks
        g(name) == IF greeks.t = "missing" THEN Missing ELSE greeks[name]
    IN  IF e1 # "ok" THEN [st |-> e1]
        ELSE IF ~IsMapping(greeks) THEN [st |-> "AttributeError"]
        ELSE
        LET delta == Convert(g("delta"), 0)
            gamma == Convert(g("gamma"), 0)
            theta == Convert(g("theta"), 0)
            vega  == Convert(g("vega"), 0)
            e2    == FirstError(<<delta, gamma, theta, vega>>)
        IN  IF e2 # "ok" THEN [st |-> e2]
            ELSE [st |-> "ok", oi |-> oi.v, iv |-> iv.v, ltp |-> ltp.v, volume |-> vol.v,
                  delta |-> delta.v, gamma |-> gamma.v, theta |-> theta.v, vega |-> vega.v]

\* gex_calculator.py 233-234: "Convert IV from percentage to decimal if needed".
IVDecimal(iv) == IF iv > IVOne THEN iv \div 100 ELSE iv

\* gex_calculator.py 201-254: the body of the per-strike try block.
\* [st |-> "ok", row |-> ...] or the exception class it raises.
ParseEntry(e) ==
    IF ~e.keyOk THEN [st |-> "ValueError"]                 \* float(strike_str)
    ELSE IF e.data.t # "map" THEN [st |-> "AttributeError"] \* strike_data.get
    ELSE
    LET ce == ParseLeg(e.data.ce)
    IN  IF ce.st # "ok" THEN [st |-> ce.st]
        ELSE
        LET pe == ParseLeg(e.data.pe)
        IN  IF pe.st # "ok" THEN [st |-> pe.st]
            ELSE [st |-> "ok", row |->
                  [Strike |-> e.strike,
                   Call_OI |-> ce.oi, Call_IV |-> IVDecimal(ce.iv), Call_LTP |-> ce.ltp,
                   Call_Volume |-> ce.volume,
                   Call_Delta_API |-> ce.delta, Call_Gamma_API |-> ce.gamma,
                   Call_Theta |-> ce.theta, Call_Vega |-> ce.vega,
                   Put_OI |-> pe.oi, Put_IV |-> IVDecimal(pe.iv), Put_LTP |-> pe.ltp,
                   Put_Volume |-> pe.volume,
                   Put_Delta_API |-> pe.delta, Put_Gamma_API |-> pe.gamma,
                   Put_Theta |-> pe.theta, Put_Vega |-> pe.vega]]

\* gex_calculator.py 256-258: the exceptions the per-strike handler catches.
CaughtPerStrike == {"ValueError", "KeyError", "TypeError"}

\* gex_calculator.py 200-258: the loop over oc.items(). An exception the
\* per-strike handler does not catch leaves the loop.
RECURSIVE ParseLoop(_, _)
ParseLoop(oc, parsed_data) ==
    IF oc = <<>> THEN [st |-> "ok", parsed_data |-> parsed_data]
    ELSE LET r == ParseEntry(Head(oc))
         IN  IF r.st = "ok" THEN ParseLoop(Tail(oc), Append(parsed_data, r.row))
             ELSE IF r.st \in CaughtPerStrike THEN ParseLoop(Tail(oc), parsed_data)
             ELSE [st |-> r.st, parsed_data |-> <<>>]

\* gex_calculator.py 179-269: parse_option_chain_response.
\* data = [last_price, oc]; oc is the sequence of (key, value) items in the
\* provider's order. Returns (parsed_data, underlying_ltp) or raises.
parse_option_chain_response(data) ==
    LET ltp == Convert(data.last_price, 0)
    IN  IF ltp.st # "ok" THEN Raised
        ELSE IF data.oc = <<>> THEN Raised                 \* "No option chain data"
        ELSE LET l == ParseLoop(data.oc, <<>>)
             IN  IF l.st # "ok" THEN Raised
                 ELSE IF l.parsed_data = <<>> THEN Raised  \* "No valid strike data"
                 ELSE [st |-> "ok", parsed_data |-> l.parsed_data, underlying_ltp |-> ltp.v]

----------------------------------------------------------------------------
(* BlackScholesCalculator, gex_calculator.py 8-26.                         *)
(* T is passed as days (T = days/365); r and sigma in 1/IVOne.             *)

DaysPerYear == 365

\* Largest r with r*r <= n, by bisection.
RECURSIVE ISqrtIn(_, _, _)
ISqrtIn(n, lo, hi) ==
    IF lo >= hi THEN lo
    ELSE LET mid == (lo + hi + 1) \div 2
         IN  IF mid * mid <= n THEN ISqrtIn(n, mid, hi) ELSE ISqrtIn(n, lo, mid - 1)

ISqrt(n) == ISqrtIn(n, 0, Min2(n, 46340))

\* d1 is kept in hundredths; +Infinity (log of S/0) is a value beyond every table.
PlusInf == 1000 * 100

\* np.log(S / K) in 1/IVOne: ln x = 2 atanh((x-1)/(x+1)), first term.
\* S > 0 and K >= 0 in every input of the model (K = 0: S/K is +inf for a
\* numpy K, and so is its log).
LnRatio(S, K) == (2 * IVOne * (S - K)) \div (S + K)

\* sigma * np.sqrt(T), in 1/IVOne; positive for T > 0 and sigma > 0.
SigmaSqrtT(T, sigma) == Max2(1, ISqrt((sigma * sigma * T) \div DaysPerYear))

\* gex_calculator.py 13 and 21: d1, in hundredths.
D1(S, K, T, r, sigma) ==
    IF K = 0 THEN PlusInf
    ELSE LET drift == ((r + (sigma * sigma) \div (2 * IVOne)) * T) \div DaysPerYear
         IN  ((LnRatio(S, K) + drift) * 100) \div SigmaSqrtT(T, sigma)

\* scipy norm.cdf, in 1/DeltaOne, tabulated every half standard deviation.
NormCdf(d) ==
    LET tab == <<50, 69, 84, 93, 98, 99>>
        i   == Abs(d) \div 50 + 1
        up  == IF i > Len(tab) THEN DeltaOne ELSE tab[i]
    IN  IF d >= 0 THEN up ELSE DeltaOne - up

\* scipy norm.pdf, in 1/1000, tabulated every half standard deviation.
NormPdf(d) ==
    LET tab == <<399, 352, 242, 130, 54, 18, 4>>
        i   == Abs(d) \div 50 + 1
    IN  IF i > Len(tab) THEN 0 ELSE tab[i]

\* gex_calculator.py 10-15; the result in 1/1000.
calculate_gamma(S, K, T, r, sigma) ==
    IF T <= 0 \/ sigma <= 0 THEN 0
    ELSE (NormPdf(D1(S, K, T, r, sigma)) * IVOne) \div (S * SigmaSqrtT(T, sigma))

\* A delta whose guard lets T = 0 and sigma = 0 through.
DeltaGuardStrict(S, K, T, r, sigma, option_type) ==
    IF T < 0 \/ sigma < 0 THEN 0
    ELSE IF option_type = "call" THEN NormCdf(D1(S, K, T, r, sigma))
    ELSE NormCdf(D1(S, K, T, r, sigma)) - DeltaOne

\* A delta that is the call's for both option types.
DeltaPutAsCall(S, K, T, r, sigma, option_type) ==
    IF T <= 0 \/ sigma <= 0 THEN 0
    ELSE NormCdf(D1(S, K, T, r, sigma))

\* gex_calculator.py 18-26; the result in 1/DeltaOne.
calculate_delta(S, K, T, r, sigma, option_type) ==
    IF T <= 0 \/ sigma <= 0 THEN 0
    ELSE IF option_type = "call" THEN NormCdf(D1(S, K, T, r, sigma))
    ELSE NormCdf(D1(S, K, T, r, sigma)) - DeltaOne


----------------------------------------------------------------------------
(* EnhancedGEXDEXCalculator.fetch_and_calculate_gex_dex, 271-428.          *)

RiskFreeRate == 700        \* risk_free_rate=0.07, in 1/IVOne

\* gex_calculator.py 174-177: get_underlying_price.
get_underlying_price(symbol) ==
    CASE symbol = "NIFTY"      -> 24500
      [] symbol = "BANKNIFTY"  -> 52000
      [] symbol = "FINNIFTY"   -> 22500
      [] symbol = "MIDCPNIFTY" -> 12000
      [] OTHER                 -> 24500

\* gex_calculator.py 316.
StrikeStep(symbol) == IF symbol \in {"NIFTY", "FINNIFTY"} THEN 50 ELSE 100

\* A selection that always takes the first expiry.
FirstExpiryAlways(expiries, expiry_index) == expiries[1]

\* gex_calculator.py 290-293: the expiry sent to the option-chain request.
SelectedExpiry(expiries, expiry_index) ==
    IF expiry_index >= Len(expiries) THEN expiries[1] ELSE expiries[expiry_index + 1]

\* A window that leaves its lower bound out.
InRangeOpenBelow(strike, underlying_price, range_points) ==
    /\ strike > underlying_price - range_points
    /\ strike <= underlying_price + range_points

\* gex_calculator.py 319-322: the rows inside the window, in their order.
InRange(strike, underlying_price, range_points) ==
    /\ strike >= underlying_price - range_points
    /\ strike <= underlying_price + range_points

\* A filter that keeps every parsed row.
KeepAllStrikes(df, underlying_price, range_points) == df

FilterStrikes(df, underlying_price, range_points) ==
    LET Keep(row) == InRange(row.Strike, underlying_price, range_points)
    IN  SelectSeq(df, Keep)

\* gex_calculator.py 331-334: an expiry string is an ISO date at offset `off`
\* days from today ("iso"), or anything strptime('%Y-%m-%d') rejects.
\* 336: (expiry_date - datetime.now()).days floors towards minus infinity;
\* now.tod is 0 at midnight and 1 later in the day; now.tick says whether the
\* clock advanced between the two datetime.now() calls of lines 334 and 336.
FallbackDays == 7

ExpiryDeltaDays(expiry, now) ==
    IF expiry.fmt = "iso"
    THEN expiry.off - now.tod
    ELSE IF now.tick THEN FallbackDays - 1 ELSE FallbackDays

\* Days to expiry without the floor.
DaysUnfloored(expiry, now) == ExpiryDeltaDays(expiry, now)

days_to_expiry(expiry, now) == Max2(ExpiryDeltaDays(expiry, now), 1)

\* gex_calculator.py 356 ...: max(r['Call_IV'], 0.01).
IVFloor == IVOne \div 100

FlooredIV(iv) == Max2(iv, IVFloor)

\* A test on the signed sum of the provider's call gammas.
NetApiGamma(df) == SumSeq(Map(df, LAMBDA row : row.Call_Gamma_API)) > 0

\* gex_calculator.py 344.
has_api_greeks(df) == SumSeq(Map(df, LAMBDA row : Abs(row.Call_Gamma_API))) > 0

\* gex_calculator.py 346-376: the four Greek columns of one row.
WithGreeks(row, api, S, T) ==
    IF api
    THEN row @@ [Call_Gamma |-> row.Call_Gamma_API, Put_Gamma |-> row.Put_Gamma_API,
                 Call_Delta |-> row.Call_Delta_API, Put_Delta |-> row.Put_Delta_API]
    ELSE row @@
         [Call_Gamma |-> calculate_gamma(S, row.Strike, T, RiskFreeRate, FlooredIV(row.Call_IV)),
          Put_Gamma  |-> calculate_gamma(S, row.Strike, T, RiskFreeRate, FlooredIV(row.Put_IV)),
          Call_Delta |-> calculate_delta(S, row.Strike, T, RiskFreeRate, FlooredIV(row.Call_IV), "call"),
          Put_Delta  |-> calculate_delta(S, row.Strike, T, RiskFreeRate, FlooredIV(row.Put_IV), "put")]

\* underlying_price * 0.01, exact for the model's prices.
Hundredth(S) == S \div 100

\* Exposures with the sign of the put's delta exposure flipped once more.
WithExposurePutFlipped(row, S) ==
    LET Call_GEX == row.Call_Gamma * row.Call_OI * (S \div 100) * (S \div 100)
        Put_GEX  == row.Put_Gamma * row.Put_OI * (S \div 100) * (S \div 100) * (-1)
        Call_DEX == row.Call_Delta * row.Call_OI * (S \div 100)
        Put_DEX  == row.Put_Delta * row.Put_OI * (S \div 100) * (-1)
    IN  row @@ [Call_GEX |-> Call_GEX, Put_GEX |-> Put_GEX,
                Net_GEX |-> Call_GEX + Put_GEX, Net_GEX_B |-> Call_GEX + Put_GEX,
                Call_DEX |-> Call_DEX, Put_DEX |-> Put_DEX,
                Net_DEX |-> Call_DEX + Put_DEX, Net_DEX_B |-> Call_DEX + Put_DEX]

\* gex_calculator.py 384-393: GEX in units of 100, DEX in units of 1.
WithExposure(row, S) ==
    LET Call_GEX == row.Call_Gamma * row.Call_OI * Hundredth(S) * Hundredth(S)
        Put_GEX  == row.Put_Gamma * row.Put_OI * Hundredth(S) * Hundredth(S) * (-1)
        Call_DEX == row.Call_Delta * row.Call_OI * Hundredth(S)
        Put_DEX  == row.Put_Delta * row.Put_OI * Hundredth(S)
    IN  row @@ [Call_GEX |-> Call_GEX, Put_GEX |-> Put_GEX,
                Net_GEX |-> Call_GEX + Put_GEX, Net_GEX_B |-> Call_GEX + Put_GEX,
                Call_DEX |-> Call_DEX, Put_DEX |-> Put_DEX,
                Net_DEX |-> Call_DEX + Put_DEX, Net_DEX_B |-> Call_DEX + Put_DEX]

\* A total that lets rows of opposite sign cancel.
NetTotal(df) == SumSeq(Map(df, LAMBDA row : row.Net_GEX))

\* gex_calculator.py 396.
total_gex(df) == SumSeq(Map(df, LAMBDA row : Abs(row.Net_GEX)))

\* gex_calculator.py 397: the exact quotient Net_GEX / total_gex * 100 as
\* numerator over denominator; every row of a table has the same denominator.
Hedging_Pressure(row, total) ==
    IF total > 0 THEN [num |-> row.Net_GEX * 100, den |-> total]
    ELSE [num |-> 0, den |-> 1]

\* gex_calculator.py 396-398.
WithMetrics(row, total) ==
    row @@ [Hedging_Pressure |-> Hedging_Pressure(row, total),
            Total_Volume |-> row.Call_Volume + row.Put_Volume]

\* gex_calculator.py 401: the positions argsort may put first. The default
\* sort kind is not stable, so among equal distances the build decides.
ArgsortFirst(df, S) ==
    {i \in DOMAIN df : \A j \in DOMAIN df : Abs(df[i].Strike - S) <= Abs(df[j].Strike - S)}

\* gex_calculator.py 401-409, for the position argsort put first.
AtmInfo(df, pos, selected_expiry, days) ==
    LET atm_strike == df[pos].Strike
        atm_row    == df[CHOOSE i \in DOMAIN df :
                            /\ df[i].Strike = atm_strike
                            /\ \A j \in 1..(i - 1) : df[j].Strike # atm_strike]
    IN  [atm_strike |-> atm_strike,
         atm_straddle_premium |-> atm_row.Call_LTP + atm_row.Put_LTP,
         expiry_date |-> selected_expiry,
         days_to_expiry |-> days]

\* gex_calculator.py 340-398, for the rows left by the filter.
ExposureTable(filtered, underlying_price, days) ==
    Let(has_api_greeks(filtered), LAMBDA api :
    Let(Map(filtered, LAMBDA row : WithExposure(WithGreeks(row, api, underlying_price, days),
                                                underlying_price)), LAMBDA x :
    Let(total_gex(x), LAMBDA total :
    Map(x, LAMBDA row : WithMetrics(row, total)))))

\* gex_calculator.py 306-327, for the parser's result: the price used and
\* the rows inside the window.
FilteredTable(a, parsed) ==
    Let(IF parsed.underlying_ltp = 0 THEN get_underlying_price(a.symbol)
        ELSE parsed.underlying_ltp, LAMBDA underlying_price :
        [underlying_price |-> underlying_price,
         df |-> FilterStrikes(parsed.parsed_data, underlying_price,
                              a.strikes_range * StrikeStep(a.symbol))])

\* gex_calculator.py 285-398: everything up to the ATM lookup.
\* a = [symbol, strikes_range, expiry_index, expiries, chain, now].
CalculateTable(a) ==
    IF ~a.expiries.ok THEN Raised                          \* get_expiry_list raised
    ELSE IF ~a.chain.ok THEN Raised                        \* get_option_chain raised
    ELSE
    Let(parse_option_chain_response(a.chain.data), LAMBDA parsed :
        IF parsed.st # "ok" THEN Raised
        ELSE
        Let(FilteredTable(a, parsed), LAMBDA f :
            IF Len(f.df) = 0 THEN Raised                   \* "No strikes in range"
            ELSE
            Let(SelectedExpiry(a.expiries.list, a.expiry_index), LAMBDA selected_expiry :
            Let(days_to_expiry(selected_expiry, a.now), LAMBDA days :
                [st |-> "ok",
                 df |-> ExposureTable(f.df, f.underlying_price, days),
                 underlying_price |-> f.underlying_price,
                 source |-> "DhanHQ API v2",
                 selected_expiry |-> selected_expiry,
                 days |-> days]))))

\* gex_calculator.py 271-428: what the caller gets for the table t of
\* CalculateTable, with argsort's first position pos: the four results, or an
\* exception and nothing else.
fetch_and_calculate_gex_dex(t, pos) ==
    IF t.st # "ok" THEN Raised
    ELSE [st |-> "ok", df |-> t.df, underlying_price |-> t.underlying_price,
          source |-> t.source,
          atm_info |-> AtmInfo(t.df, pos, t.selected_expiry, t.days)]

----------------------------------------------------------------------------
(* calculate_dual_gex_dex_flow and detect_gamma_flip_zones, 430-486.       *)
(* A table is [cols, rows]: the columns the DataFrame has and its rows in  *)
(* their order; the index labels are the rows' positions. Net_GEX_B and    *)
(* Net_DEX_B of such a table are in billions.                              *)

\* df[col]: a KeyError unless the table has the column.
HasColumn(df, col) == col \in df.cols

\* A sort that leaves the rows as they came.
KeepRowOrder(rows) == rows

\* df.sort_values('Strike'): the row at each rank; equal strikes keep their order.
SortByStrike(rows) ==
    LET Rank(i) == Cardinality({j \in DOMAIN rows :
                        \/ rows[j].Strike < rows[i].Strike
                        \/ rows[j].Strike = rows[i].Strike /\ j < i}) + 1
    IN  [r \in DOMAIN rows |-> rows[CHOOSE i \in DOMAIN rows : Rank(i) = r]]

FlowThreshold == 50
WindowBelow == 5
WindowAbove == 6

\* A value a function returned.
ReturnedNone == [st |-> "ok", kind |-> "None"]
ReturnedValue(kind, value) == [st |-> "ok", kind |-> kind, value |-> value]

\* gex_calculator.py 434-435: idxmin gives the label of the first smallest
\* distance in sorted order and get_loc its position.
AtmPosition(df_sorted, futures_ltp) ==
    CHOOSE p \in DOMAIN df_sorted :
        /\ \A j \in DOMAIN df_sorted :
              Abs(df_sorted[p].Strike - futures_ltp) <= Abs(df_sorted[j].Strike - futures_ltp)
        /\ \A j \in 1..(p - 1) :
              Abs(df_sorted[p].Strike - futures_ltp) < Abs(df_sorted[j].Strike - futures_ltp)

\* A classification whose bounds are inclusive.
GexBiasInclusive(gex_near_total) ==
    IF gex_near_total >= FlowThreshold THEN "STRONG BULLISH"
    ELSE IF gex_near_total <= -FlowThreshold THEN "VOLATILE"
    ELSE "NEUTRAL"

\* gex_calculator.py 445-450.
GexBias(gex_near_total) ==
    IF gex_near_total > FlowThreshold THEN "STRONG BULLISH"
    ELSE IF gex_near_total < -FlowThreshold THEN "VOLATILE"
    ELSE "NEUTRAL"

\* A classification that takes 0 as bullish.
DexBiasZeroBullish(dex_near_total) == IF dex_near_total >= 0 THEN "BULLISH" ELSE "BEARISH"

\* gex_calculator.py 453.
DexBias(dex_near_total) == IF dex_near_total > 0 THEN "BULLISH" ELSE "BEARISH"

\* gex_calculator.py 460: f"{gex_bias} + {dex_bias}".
CombinedBias(gex_bias, dex_bias) == <<gex_bias, " + ", dex_bias>>

\* gex_calculator.py 437-461, for the sorted rows (positions from 1 here).
FlowMetrics(df_sorted, futures_ltp) ==
    Let(AtmPosition(df_sorted, futures_ltp) - 1, LAMBDA atm_position :
    Let(SubSeq(df_sorted, Max2(0, atm_position - WindowBelow) + 1,
                          Min2(Len(df_sorted), atm_position + WindowAbove)), LAMBDA near_strikes :
    Let([positive_gex |-> SumSeq(Map(SelectSeq(near_strikes, LAMBDA row : row.Net_GEX_B > 0),
                                     LAMBDA row : row.Net_GEX_B)),
         negative_gex |-> SumSeq(Map(SelectSeq(near_strikes, LAMBDA row : row.Net_GEX_B < 0),
                                     LAMBDA row : row.Net_GEX_B)),
         dex_near_total |-> SumSeq(Map(near_strikes, LAMBDA row : row.Net_DEX_B))], LAMBDA t :
    Let([gex_near_total |-> t.positive_gex + t.negative_gex,
         gex_bias |-> GexBias(t.positive_gex + t.negative_gex),
         dex_bias |-> DexBias(t.dex_near_total)], LAMBDA b :
        [gex_near_total |-> b.gex_near_total,
         dex_near_total |-> t.dex_near_total,
         gex_near_bias |-> b.gex_bias,
         dex_near_bias |-> b.dex_bias,
         combined_bias |-> CombinedBias(b.gex_bias, b.dex_bias)]))))

\* gex_calculator.py 430-464: every exception inside ends in `return None`.
calculate_dual_gex_dex_flow(df, futures_ltp) ==
    IF ~HasColumn(df, "Strike") THEN ReturnedNone           \* sort_values: KeyError
    ELSE IF df.rows = <<>> THEN ReturnedNone                \* idxmin: ValueError
    ELSE IF ~HasColumn(df, "Net_GEX_B") \/ ~HasColumn(df, "Net_DEX_B")
         THEN ReturnedNone                                  \* KeyError
    ELSE ReturnedValue("dict", FlowMetrics(SortByStrike(df.rows), futures_ltp))

\* gex_calculator.py 476: the test on one adjacent pair.
IsFlip(current_gex, next_gex) ==
    \/ current_gex > 0 /\ next_gex < 0
    \/ current_gex < 0 /\ next_gex > 0

\* gex_calculator.py 472-481: the zones of the sorted rows from position i on.
RECURSIVE FlipZonesFrom(_, _)
FlipZonesFrom(df_sorted, i) ==
    IF i >= Len(df_sorted) THEN <<>>
    ELSE (IF IsFlip(df_sorted[i].Net_GEX_B, df_sorted[i + 1].Net_GEX_B)
          THEN <<[lower_strike |-> df_sorted[i].Strike,
                  upper_strike |-> df_sorted[i + 1].Strike,
                  type |-> "Flip Zone"]>>
          ELSE <<>>) \o FlipZonesFrom(df_sorted, i + 1)

\* gex_calculator.py 466-486: every exception inside ends in `return []`.
detect_gamma_flip_zones(df) ==
    IF ~HasColumn(df, "Strike") THEN ReturnedValue("list", <<>>)     \* KeyError
    ELSE IF Len(df.rows) >= 2 /\ ~HasColumn(df, "Net_GEX_B")
         THEN ReturnedValue("list", <<>>)                            \* KeyError
    ELSE ReturnedValue("list", Let(SortByStrike(df.rows), LAMBDA t : FlipZonesFrom(t, 1)))

----------------------------------------------------------------------------
(* The provider's answers the model draws from.                            *)

MaxRows == 2               \* strike entries in one option-chain response

NoGreeks == [t |-> "missing"]

ApiGreeks(delta, gamma) ==
    [t |-> "map", delta |-> Num(delta), gamma |-> Num(gamma), theta |-> Missing, vega |-> Missing]

Leg(oi, iv, ltp, greeks) ==
    [t |-> "map", oi |-> Num(oi), implied_volatility |-> iv, last_price |-> Num(ltp),
     volume |-> Num(oi), greeks |-> greeks]

\* The items of the mapping 'oc': the key parsed, and its value.
Entry(strike, ce, pe) ==
    [keyOk |-> TRUE, strike |-> strike, data |-> [t |-> "map", ce |-> ce, pe |-> pe]]

Strikes == {23250, 23300, 24450, 24500, 24550, 25700}

\* The call and put quotes of a strike: without provider Greeks (open
\* interest 2/1, 1/2 and 1/0, IV 15 percent or 0), with provider Greeks in
\* range, and with provider Greeks out of range.
Quotes ==
    <<<<Leg(2, Num(15 * IVOne), 9, NoGreeks), Leg(1, Num(15 * IVOne), 7, NoGreeks)>>,
      <<Leg(1, Num(15 * IVOne), 9, NoGreeks), Leg(2, Num(15 * IVOne), 7, NoGreeks)>>,
      <<Leg(1, Num(0), 9, NoGreeks), Leg(0, Num(0), 7, NoGreeks)>>,
      <<Leg(2, Num(15 * IVOne), 9, ApiGreeks(55, 3)), Leg(1, Num(15 * IVOne), 7, ApiGreeks(-45, 3))>>,
      <<Leg(1, Num(15 * IVOne), 9, ApiGreeks(120, -1)), Leg(1, Num(15 * IVOne), 7, ApiGreeks(10, 2))>>>>

\* The entry of strike c[1] with quote number c[2]. The call's last price
\* follows the strike, so that two rows never have the same straddle premium.
EntryOf(c) ==
    Entry(c[1], [Quotes[c[2]][1] EXCEPT !.last_price = Num(c[1] \div 50)], Quotes[c[2]][2])

\* The option chains: at most MaxRows entries in any order, a strike key
\* being unique in the provider's mapping.
Chains == SeqsUpTo(Strikes \X DOMAIN Quotes, MaxRows, LAMBDA c : c[1])

IsoDate(off) == [fmt |-> "iso", off |-> off]
DmyDate(off) == [fmt |-> "dmy", off |-> off]

ExpiryLists ==
    {[ok |-> FALSE, list |-> <<>>],
     [ok |-> TRUE, list |-> <<IsoDate(2)>>],
     [ok |-> TRUE, list |-> <<IsoDate(0)>>],
     [ok |-> TRUE, list |-> <<DmyDate(2), IsoDate(9)>>]}

Symbols == {"NIFTY", "MIDCPNIFTY"}

----------------------------------------------------------------------------
(* The calls.                                                              *)

None == [st |-> "none"]

Init ==
    /\ pc = "idle"
    /\ req = None
    /\ out = None

\* One call of fetch_and_calculate_gex_dex (streamlit_app.py 241-245), with
\* the answers of the two requests: every symbol and range with every option
\* chain, and every answer to the expiry request, a failed option-chain
\* request and a response without last_price with the chains of at most one
\* strike.
Fetch ==
    /\ pc = "idle"
    /\ \E symbol \in Symbols, strikes_range \in {1, 12}, expiry_index \in {0, 1, 2},
          expiries \in ExpiryLists, chain_ok \in BOOLEAN,
          last_price \in {Num(0), Num(24500)}, chain \in Chains :
         /\ \/ expiries.list = <<IsoDate(2)>> /\ expiry_index = 0 /\ chain_ok
            \/ Len(chain) <= 1 /\ symbol = "NIFTY" /\ strikes_range = 1
         /\ chain_ok \/ (chain = <<>> /\ last_price = Num(0))
         /\ last_price = Num(24500) \/ Len(chain) <= 1
         /\ \E a \in {[symbol |-> symbol, strikes_range |-> strikes_range,
                      expiry_index |-> expiry_index, expiries |-> expiries,
                      chain |-> [ok |-> chain_ok,
                                 data |-> [last_price |-> last_price,
                                           oc |-> MapValue(chain, EntryOf)]],
                      now |-> [tod |-> 1, tick |-> TRUE]]} :
            \E t \in {CalculateTable(a)} :
               /\ req' = a
               /\ IF t.st = "ok"
                  THEN \E pos \in ArgsortFirst(t.df, t.underlying_price) :
                          out' = fetch_and_calculate_gex_dex(t, pos)
                  ELSE out' = fetch_and_calculate_gex_dex(t, 0)
    /\ pc' = "fetch"

\* The next script run starts from nothing: no state is kept between calls.
Rerun ==
    /\ pc # "idle"
    /\ pc' = "idle"
    /\ req' = None
    /\ out' = None

Next == Fetch \/ Rerun

Spec == Init /\ [][Next]_vars


----------------------------------------------------------------------------
(* Claims about fetch_and_calculate_gex_dex, checked under Spec.           *)

Returned == pc = "fetch" /\ out.st = "ok"

\* The strike entries of the request's option chain (all of them parse).
ChainStrikes == {e.strike : e \in Range(req.chain.data.oc)}

TableStrikes == {row.Strike : row \in Range(out.df)}

SumAbsNetGex == SumSeq(Map(out.df, LAMBDA row : Abs(row.Net_GEX)))

\* Sum of the Hedging_Pressure column, as a numerator over the rows' common
\* denominator, and that denominator.
PressureSum == SumSeq(Map(out.df, LAMBDA row : row.Hedging_Pressure.num))

PressureAbsSum == SumSeq(Map(out.df, LAMBDA row : Abs(row.Hedging_Pressure.num)))

PressureDen == out.df[1].Hedging_Pressure.den

AllPressureZero == \A row \in Range(out.df) : row.Hedging_Pressure.num = 0

\* C1 as stated: the Hedging_Pressure values of a returned table sum to 100
\* whenever the sum of |Net_GEX| is positive, for any mix of signs, and are
\* all 0 when that sum is 0.
C1_PressureSumsTo100 ==
    Returned =>
        IF SumAbsNetGex > 0 THEN PressureSum = 100 * PressureDen ELSE AllPressureZero

\* C1 amended: the absolute values of Hedging_Pressure sum to 100 whenever the
\* sum of |Net_GEX| is positive; the signed values sum to 100 exactly when no
\* row has a negative Net_GEX; all values are 0 when the sum of |Net_GEX| is 0.
C1_AbsPressureSumsTo100 ==
    Returned =>
        IF SumAbsNetGex > 0
        THEN /\ PressureAbsSum = 100 * PressureDen
             /\ PressureSum = 100 * PressureDen
                  <=> \A row \in Range(out.df) : row.Net_GEX >= 0
        ELSE AllPressureZero

\* A returned table with a row of positive and a row of negative Net_GEX.
C1_Witness ==
    /\ Returned
    /\ \E r1, r2 \in Range(out.df) : r1.Net_GEX > 0 /\ r2.Net_GEX < 0

\* The price the window is centred on (gex_calculator.py 304-309).
UsedPrice ==
    IF req.chain.data.last_price.v = 0 THEN get_underlying_price(req.symbol)
    ELSE req.chain.data.last_price.v

Step == IF req.symbol \in {"NIFTY", "FINNIFTY"} THEN 50 ELSE 100

InWindow(k) ==
    /\ UsedPrice - req.strikes_range * Step <= k
    /\ k <= UsedPrice + req.strikes_range * Step

Requested == pc = "fetch" /\ req.expiries.ok /\ req.chain.ok

\* C5: the call returns all four results or raises and returns nothing; it
\* raises when no parsed strike lies inside the accepted range, and a
\* returned table is never empty.
C5_CompleteOrRaised ==
    pc = "fetch" =>
        /\ out.st \in {"ok", "raised"}
        /\ out.st = "raised" => DOMAIN out = {"st"}
        /\ out.st = "ok" =>
             /\ DOMAIN out = {"st", "df", "underlying_price", "source", "atm_info"}
             /\ Len(out.df) > 0
             /\ out.atm_info.atm_strike \in TableStrikes
        /\ (Requested /\ \A k \in ChainStrikes : ~InWindow(k)) => out.st = "raised"

\* Both requests succeeded, strikes were parsed, none is in range: raised.
C5_Witness ==
    /\ Requested
    /\ ChainStrikes # {}
    /\ \A k \in ChainStrikes : ~InWindow(k)
    /\ out = Raised

\* C7: a parsed strike is in the returned table iff it lies in
\* [S - range*step, S + range*step], both bounds included; with range 12,
\* step 100 and S = 24500 the window is [23300, 25700]: 23300 is kept and
\* 23250 is dropped.
C7_WindowInclusive ==
    Returned =>
        /\ out.underlying_price = UsedPrice
        /\ \A k \in ChainStrikes : k \in TableStrikes <=> InWindow(k)
        /\ TableStrikes \subseteq ChainStrikes
        /\ (req.strikes_range = 12 /\ Step = 100 /\ UsedPrice = 24500) =>
             /\ 23250 \notin TableStrikes
             /\ 23300 \in ChainStrikes => 23300 \in TableStrikes
             /\ 25700 \in ChainStrikes => 25700 \in TableStrikes
             /\ \A k \in TableStrikes : 23300 <= k /\ k <= 25700

\* The scenario: 23250 and 23300 offered, only 23300 returned.
C7_Witness ==
    /\ Returned
    /\ req.strikes_range = 12 /\ Step = 100 /\ UsedPrice = 24500
    /\ ChainStrikes = {23250, 23300}
    /\ TableStrikes = {23300}

\* C8 as stated: every returned row has Call_Gamma >= 0, Put_Gamma >= 0,
\* Call_Delta in [0, 1] and Put_Delta in [-1, 0], whichever source the Greeks
\* came from.
C8_GreeksInRange ==
    Returned =>
        \A row \in Range(out.df) :
            /\ row.Call_Gamma >= 0 /\ row.Put_Gamma >= 0
            /\ 0 <= row.Call_Delta /\ row.Call_Delta <= DeltaOne
            /\ -DeltaOne <= row.Put_Delta /\ row.Put_Delta <= 0

Distance(k) == Abs(k - out.underlying_price)

\* C10 as stated: atm_strike is a strike of the table nearest to S, the lower
\* one when two are equally near, and atm_straddle_premium is Call_LTP +
\* Put_LTP of its row.
C10_AtmNearestLowerOnTie ==
    Returned =>
        /\ out.atm_info.atm_strike \in TableStrikes
        /\ \A k \in TableStrikes :
              \/ Distance(out.atm_info.atm_strike) < Distance(k)
              \/ /\ Distance(out.atm_info.atm_strike) = Distance(k)
                 /\ out.atm_info.atm_strike <= k
        /\ \E row \in Range(out.df) :
              /\ row.Strike = out.atm_info.atm_strike
              /\ out.atm_info.atm_straddle_premium = row.Call_LTP + row.Put_LTP


----------------------------------------------------------------------------
(* parse_option_chain_response on well-formed and malformed responses.     *)

MaxParseRows == 2          \* strike entries in one response to the parser

GoodLeg == Leg(1, Num(15 * IVOne), 9, NoGreeks)

\* One leg object in each of the shapes the provider can send.
LegShapes ==
    <<GoodLeg,
      [t |-> "missing"], [t |-> "null"], [t |-> "text"],
      [GoodLeg EXCEPT !.oi = Null], [GoodLeg EXCEPT !.oi = Text],
      [GoodLeg EXCEPT !.implied_volatility = Missing],
      [GoodLeg EXCEPT !.implied_volatility = Num(0)],
      [GoodLeg EXCEPT !.implied_volatility = Num(-5 * IVOne)],
      [GoodLeg EXCEPT !.implied_volatility = Num(IVOne \div 2)],
      [GoodLeg EXCEPT !.greeks = [t |-> "null"]],
      [GoodLeg EXCEPT !.greeks = ApiGreeks(55, 3)],
      [GoodLeg EXCEPT !.greeks = [ApiGreeks(55, 3) EXCEPT !.delta = Null]]>>

\* The value stored under a strike key: v = <<"ce", i>> or <<"pe", i>> is a
\* mapping with that leg in shape i, and <<"null", 1>> is no mapping at all.
StrikeValue(v) ==
    CASE v[1] = "ce" -> [t |-> "map", ce |-> LegShapes[v[2]], pe |-> GoodLeg]
      [] v[1] = "pe" -> [t |-> "map", ce |-> GoodLeg, pe |-> LegShapes[v[2]]]
      [] OTHER       -> [t |-> "null"]

\* Keys "0" and "24500" parse; a third key does not (its entry carries the
\* strike -1 only to tell it from the others).
ParseEntryOf(c) == [keyOk |-> c[1] >= 0, strike |-> c[1], data |-> StrikeValue(c[2])]

ParseCodes ==
    ({0, 24500} \X (({"ce", "pe"} \X DOMAIN LegShapes) \cup {<<"null", 1>>}))
    \cup ({-1} \X {<<"ce", 1>>, <<"null", 1>>})

ParseChains == SeqsUpTo(ParseCodes, MaxParseRows, LAMBDA c : c[1])

\* One call of parse_option_chain_response (gex_calculator.py 304).
Parse ==
    /\ pc = "idle"
    /\ \E last_price \in {Num(24500), Null}, chain \in ParseChains :
          \E data \in {[last_price |-> last_price, oc |-> MapValue(chain, ParseEntryOf)]} :
             /\ req' = data
             /\ out' = parse_option_chain_response(data)
    /\ pc' = "parse"

NextParse == Parse \/ Rerun

SpecParse == Init /\ [][NextParse]_vars

\* A JSON value int() and float() accept, or an absent key.
Numeric(field) == field.t \in {"num", "missing"}

\* A leg that is absent, or a mapping of numbers whose Greeks are absent or a
\* mapping of numbers.
UsableLeg(leg) ==
    \/ leg.t = "missing"
    \/ /\ leg.t = "map"
       /\ Numeric(leg.oi) /\ Numeric(leg.implied_volatility)
       /\ Numeric(leg.last_price) /\ Numeric(leg.volume)
       /\ \/ leg.greeks.t = "missing"
          \/ /\ leg.greeks.t = "map"
             /\ Numeric(leg.greeks.delta) /\ Numeric(leg.greeks.gamma)
             /\ Numeric(leg.greeks.theta) /\ Numeric(leg.greeks.vega)

\* A strike entry with nothing malformed in it.
Usable(e) ==
    /\ e.keyOk
    /\ e.data.t = "map"
    /\ UsableLeg(e.data.ce)
    /\ UsableLeg(e.data.pe)

ParsedCall == pc = "parse" /\ req.last_price.t = "num"

UsableStrikes == Map(SelectSeq(req.oc, Usable), LAMBDA e : e.strike)

\* C4 as stated: a malformed strike entry, of any kind, is skipped and every
\* other entry is still parsed and returned, in order; the parse fails only
\* when no entry is usable.
C4_MalformedEntrySkipped ==
    ParsedCall =>
        IF UsableStrikes = <<>> THEN out.st = "raised"
        ELSE /\ out.st = "ok"
             /\ Map(out.parsed_data, LAMBDA row : row.Strike) = UsableStrikes

\* The raw implied volatility of a usable leg is missing, zero or negative.
NoRawIV(leg) ==
    \/ leg.t = "missing"
    \/ leg.implied_volatility.t = "missing"
    \/ leg.implied_volatility.v <= 0

\* C9 as stated: the normalized IV of a side is 0.15 whenever its raw IV is
\* missing, zero or negative, and every normalized IV is positive.
C9_IVDefault ==
    (pc = "parse" /\ out.st = "ok") =>
        /\ \A row \in Range(out.parsed_data) : row.Call_IV > 0 /\ row.Put_IV > 0
        /\ \A e \in Range(req.oc) : \A row \in Range(out.parsed_data) :
              (Usable(e) /\ row.Strike = e.strike) =>
                 /\ NoRawIV(e.data.ce) => row.Call_IV = (15 * IVOne) \div 100
                 /\ NoRawIV(e.data.pe) => row.Put_IV = (15 * IVOne) \div 100


----------------------------------------------------------------------------
(* The two table functions on tables of every shape.                       *)

MaxTableRows == 3          \* rows of a table given to the two functions

AllColumns == {"Strike", "Net_GEX_B", "Net_DEX_B"}

\* A row <<Strike, Net_GEX_B, Net_DEX_B>>; a strike appears once in a table.
RowOf(c) == [Strike |-> c[1], Net_GEX_B |-> c[2], Net_DEX_B |-> c[3]]

RowSeqs ==
    SeqsUpTo({24450, 24500, 24550, 24600} \X {-50, 0, 50} \X {-1, 1}, MaxTableRows,
             LAMBDA c : c[1])

\* Full tables in any row order, tables of at most two rows without the
\* Net_GEX_B column, and the DataFrame with no columns and no rows.
TableOf(cols, rows) == [cols |-> cols, rows |-> MapValue(rows, RowOf)]

TableShapes ==
    {<<cols, rows>> \in {AllColumns, AllColumns \ {"Net_GEX_B"}, {}} \X RowSeqs :
        /\ cols = AllColumns \ {"Net_GEX_B"} => Len(rows) <= 2
        /\ cols = {} => rows = <<>>}

\* streamlit_app.py 313-314, 334-336.
Flow ==
    /\ pc = "idle"
    /\ \E t \in TableShapes, futures_ltp \in {24500, 24525} :
          \E df \in {TableOf(t[1], t[2])} :
             /\ req' = [df |-> df, futures_ltp |-> futures_ltp]
             /\ out' = calculate_dual_gex_dex_flow(df, futures_ltp)
    /\ pc' = "flow"

\* streamlit_app.py 342-343.
Flip ==
    /\ pc = "idle"
    /\ \E t \in TableShapes :
          \E df \in {TableOf(t[1], t[2])} :
             /\ req' = [df |-> df]
             /\ out' = detect_gamma_flip_zones(df)
    /\ pc' = "flip"

NextTable == Flow \/ Flip \/ Rerun

SpecTable == Init /\ [][NextTable]_vars

\* A table with every column the two functions read.
FullTable == req.df.cols = AllColumns

GivenStrikes == {row.Strike : row \in Range(req.df.rows)}

GexAt(k) == (CHOOSE row \in Range(req.df.rows) : row.Strike = k).Net_GEX_B

\* Strikes next to each other in ascending order.
AdjacentStrikes ==
    {p \in GivenStrikes \X GivenStrikes :
        p[1] < p[2] /\ ~\E k \in GivenStrikes : p[1] < k /\ k < p[2]}

ZoneAt(p) == \E z \in Range(out.value) : z.lower_strike = p[1] /\ z.upper_strike = p[2]

\* C2 as stated: 0 counts as non-positive, so a zone is emitted for adjacent
\* strikes iff exactly one of the two Net_GEX_B values is > 0.
C2_ZeroIsNonPositive ==
    (pc = "flip" /\ FullTable) =>
        \A p \in AdjacentStrikes : ZoneAt(p) <=> ((GexAt(p[1]) > 0) # (GexAt(p[2]) > 0))

\* The sign changes of the ascending sequence, 0 counted as non-positive.
SignChanges == {p \in AdjacentStrikes : (GexAt(p[1]) > 0) # (GexAt(p[2]) > 0)}

\* C3 as stated: for a table in any row order the result is empty when all
\* values are strictly of one sign, and has exactly k zones, ascending by
\* lower_strike and each on adjacent strikes, when the ascending sequence has
\* k sign changes.
C3_OneZonePerSignChange ==
    (pc = "flip" /\ FullTable) =>
        /\ ((\A k \in GivenStrikes : GexAt(k) > 0) \/ (\A k \in GivenStrikes : GexAt(k) < 0))
              => out.value = <<>>
        /\ Len(out.value) = Cardinality(SignChanges)
        /\ \A i \in DOMAIN out.value :
              <<out.value[i].lower_strike, out.value[i].upper_strike>> \in AdjacentStrikes
        /\ \A i, j \in DOMAIN out.value :
              i < j => out.value[i].lower_strike < out.value[j].lower_strike

\* An empty table, or one without a column the function reads.
InvalidTable == req.df.rows = <<>> \/ req.df.cols # AllColumns

\* C6 as stated: given an empty or invalid table, both functions fail visibly
\* and return nothing that looks like a result (None, which no valid table
\* yields, is taken here as a visible failure).
C6_InvalidInputRaises ==
    (pc \in {"flow", "flip"} /\ InvalidTable) => (out.st = "raised" \/ out.kind = "None")


----------------------------------------------------------------------------
(* calculate_dual_gex_dex_flow on tables wider than its window.            *)

MaxWindowRows == 13        \* rows of a table wider than the window

RECURSIVE Pow2(_)
Pow2(n) == IF n = 0 THEN 1 ELSE 2 * Pow2(n - 1)

\* Row i of a wide table: strikes 50 apart, a Net_GEX_B that tells the rows
\* of a sum apart, and a Net_DEX_B of 1, so that a sum counts its rows.
WideRow(i) == [Strike |-> 24000 + 50 * i, Net_GEX_B |-> Pow2(i - 1), Net_DEX_B |-> 1]

\* The rows 1..n in ascending order rotated by k, or that order reversed.
WideOrder(n, k, reversed) ==
    [j \in 1..n |-> LET i == ((j - 1 + k) % n) + 1
                    IN  IF reversed THEN n + 1 - i ELSE i]

WideTable(n, k, reversed) ==
    [cols |-> AllColumns, rows |-> MapValue(WideOrder(n, k, reversed), WideRow)]

\* Reference prices on and half-way between the strikes, and beyond both ends.
WidePrices(n) == {24000 + 25 * h : h \in 0..(2 * n + 4)}

\* streamlit_app.py 313-314, with a table of up to MaxWindowRows rows.
FlowWide ==
    /\ pc = "idle"
    /\ \E n \in 1..MaxWindowRows, reversed \in BOOLEAN :
          \E k \in 0..(n - 1), futures_ltp \in WidePrices(n) :
             \E df \in {WideTable(n, k, reversed)} :
                /\ req' = [df |-> df, futures_ltp |-> futures_ltp]
                /\ out' = calculate_dual_gex_dex_flow(df, futures_ltp)
    /\ pc' = "flow"

NextWindow == FlowWide \/ Rerun

SpecWindow == Init /\ [][NextWindow]_vars

DexAt(k) == (CHOOSE row \in Range(req.df.rows) : row.Strike = k).Net_DEX_B

\* Sum of f over the set S.
RECURSIVE SumOver(_, _)
SumOver(f, S) ==
    IF S = {} THEN 0
    ELSE LET x == CHOOSE x \in S : TRUE IN f[x] + SumOver(f, S \ {x})

\* The strike nearest the reference price, the lower one on a tie.
NearestStrike ==
    CHOOSE k \in GivenStrikes : \A j \in GivenStrikes :
        \/ Abs(k - req.futures_ltp) < Abs(j - req.futures_ltp)
        \/ Abs(k - req.futures_ltp) = Abs(j - req.futures_ltp) /\ k <= j

\* Number of strikes of the table below k.
RankOf(k) == Cardinality({j \in GivenStrikes : j < k})

\* The nearest strike with up to 5 strikes on each side of it.
ExpectedWindow ==
    {k \in GivenStrikes :
        RankOf(NearestStrike) - 5 <= RankOf(k) /\ RankOf(k) <= RankOf(NearestStrike) + 5}

\* C11: the totals are those of the rows at sorted positions
\* [max(0, p - 5), min(n, p + 6)), p the position of the strike nearest the
\* reference price (the lower on a tie): the nearest strike, the 5 strikes
\* below and the 5 above it where the table has them, at most 11 rows,
\* whatever the row order of the table.
C11_WindowAroundNearest ==
    (pc = "flow" /\ FullTable /\ req.df.rows # <<>>) =>
        /\ out.kind = "dict"
        /\ out.value.gex_near_total = SumOver([k \in GivenStrikes |-> GexAt(k)], ExpectedWindow)
        /\ out.value.dex_near_total = SumOver([k \in GivenStrikes |-> DexAt(k)], ExpectedWindow)
        /\ NearestStrike \in ExpectedWindow
        /\ Cardinality(ExpectedWindow) <= 11
        /\ Cardinality(ExpectedWindow) =
              1 + Min2(5, RankOf(NearestStrike))
                + Min2(5, Cardinality(GivenStrikes) - 1 - RankOf(NearestStrike))

\* A table of more than 11 rows, not in ascending order, with 5 strikes below
\* and 5 above the nearest one and others left out on both sides.
C11_Witness ==
    /\ pc = "flow" /\ out.kind = "dict"
    /\ Cardinality(GivenStrikes) > 12
    /\ Cardinality(ExpectedWindow) = 11
    /\ RankOf(NearestStrike) > 5
    /\ Cardinality(GivenStrikes) - 1 - RankOf(NearestStrike) > 5
    /\ \E i \in 1..(Len(req.df.rows) - 1) : req.df.rows[i].Strike > req.df.rows[i + 1].Strike
    /\ out.value.dex_near_total = 11


----------------------------------------------------------------------------
(* Claims about the flow metrics, checked under SpecTable.                 *)

FlowResult == pc = "flow" /\ FullTable /\ req.df.rows # <<>>

\* C12: gex_near_total is the sum of the positive plus the sum of the
\* negative Net_GEX_B of the window; the label is STRONG BULLISH iff it is
\* above 50, VOLATILE iff it is below -50 and NEUTRAL otherwise, so that
\* exactly 50 and exactly -50 are NEUTRAL.
C12_GexBiasStrict ==
    FlowResult =>
        /\ out.kind = "dict"
        /\ out.value.gex_near_total =
              SumOver([k \in GivenStrikes |-> IF GexAt(k) > 0 THEN GexAt(k) ELSE 0], ExpectedWindow)
              + SumOver([k \in GivenStrikes |-> IF GexAt(k) < 0 THEN GexAt(k) ELSE 0], ExpectedWindow)
        /\ out.value.gex_near_bias = "STRONG BULLISH" <=> out.value.gex_near_total > 50
        /\ out.value.gex_near_bias = "VOLATILE" <=> out.value.gex_near_total < -50
        /\ out.value.gex_near_bias = "NEUTRAL" <=>
              (-50 <= out.value.gex_near_total /\ out.value.gex_near_total <= 50)
        /\ out.value.gex_near_bias \in {"STRONG BULLISH", "VOLATILE", "NEUTRAL"}

\* A window of a positive and a negative row whose total is exactly 50.
C12_Witness ==
    /\ FlowResult
    /\ \E j, k \in GivenStrikes : GexAt(j) > 0 /\ GexAt(k) < 0
    /\ out.value.gex_near_total = 50
    /\ out.value.gex_near_bias = "NEUTRAL"

\* C13: dex_near_total is the plain sum of Net_DEX_B over the window, the
\* label is BULLISH iff it is above 0 and BEARISH otherwise (0 is BEARISH),
\* and combined_bias is the gex label followed by the dex label.
C13_DexBias ==
    FlowResult =>
        /\ out.kind = "dict"
        /\ out.value.dex_near_total = SumOver([k \in GivenStrikes |-> DexAt(k)], ExpectedWindow)
        /\ out.value.dex_near_bias = "BULLISH" <=> out.value.dex_near_total > 0
        /\ out.value.dex_near_bias = "BEARISH" <=> out.value.dex_near_total <= 0
        /\ out.value.combined_bias = <<out.value.gex_near_bias, " + ", out.value.dex_near_bias>>

\* Rows of opposite Net_DEX_B that sum to 0.
C13_Witness ==
    /\ FlowResult
    /\ \E j, k \in GivenStrikes : DexAt(j) > 0 /\ DexAt(k) < 0
    /\ out.value.dex_near_total = 0
    /\ out.value.dex_near_bias = "BEARISH"


----------------------------------------------------------------------------
(* Claims about the time to expiry, checked under Spec.                    *)

\* The expiry string the call selected (gex_calculator.py 290-293).
ChosenExpiry == SelectedExpiry(req.expiries.list, req.expiry_index)

\* C14 as stated: the expiry date is the date the string names, in ISO form
\* and in DD-Mon-YYYY form alike, so the days to expiry are those to that
\* date (at least 1); today + 7 days is used for no string of either form.
C14_BothDateFormatsParsed ==
    (Returned /\ ChosenExpiry.fmt \in {"iso", "dmy"}) =>
        out.atm_info.days_to_expiry = Max2(ChosenExpiry.off - req.now.tod, 1)


----------------------------------------------------------------------------
(* BlackScholesCalculator called directly, and the exposure of one strike  *)
(* with the Greeks it returns.                                             *)

\* S, K in rupees, T in days, sigma in 1/IVOne; the formula branch is entered
\* with a positive S only.
GreekInputs ==
    {i \in [S : {0, 100, 24500}, K : {0, 24450, 24500, 25700}, T : {-1, 0, 1, 7},
            sigma : {-15 * 100, 0, 100, 15 * 100}, call_oi : {0, 1, 2}, put_oi : {0, 1, 2}] :
        (i.T > 0 /\ i.sigma > 0) => i.S > 0}

\* gex_calculator.py 354-393 for one strike: the four Greeks of the same
\* (S, K, T, r, sigma) and the exposures computed from them.
GreeksOf(i) ==
    Let([Strike |-> i.K, Call_OI |-> i.call_oi, Put_OI |-> i.put_oi,
         Call_Gamma |-> calculate_gamma(i.S, i.K, i.T, RiskFreeRate, i.sigma),
         Put_Gamma  |-> calculate_gamma(i.S, i.K, i.T, RiskFreeRate, i.sigma),
         Call_Delta |-> calculate_delta(i.S, i.K, i.T, RiskFreeRate, i.sigma, "call"),
         Put_Delta  |-> calculate_delta(i.S, i.K, i.T, RiskFreeRate, i.sigma, "put")],
        LAMBDA row : [st |-> "ok", row |-> WithExposure(row, i.S)])

Greeks ==
    /\ pc = "idle"
    /\ \E i \in GreekInputs :
          /\ req' = i
          /\ out' = GreeksOf(i)
    /\ pc' = "greeks"

NextGreeks == Greeks \/ Rerun

SpecGreeks == Init /\ [][NextGreeks]_vars

Degenerate == req.T <= 0 \/ req.sigma <= 0

\* C15: with T <= 0 or sigma <= 0 the gamma and both deltas are exactly 0 and
\* nothing is raised, for every S and K, those the formula is undefined for
\* included.
C15_DegenerateIsZero ==
    (pc = "greeks" /\ Degenerate) =>
        /\ out.st = "ok"
        /\ out.row.Call_Gamma = 0 /\ out.row.Put_Gamma = 0
        /\ out.row.Call_Delta = 0 /\ out.row.Put_Delta = 0

\* T = 0 with a positive sigma, and S = K = 0.
C15_Witness ==
    /\ pc = "greeks"
    /\ req.T = 0 /\ req.sigma > 0 /\ req.S = 0 /\ req.K = 0
    /\ out.st = "ok" /\ out.row.Call_Delta = 0 /\ out.row.Call_Gamma = 0

\* C16: for the same (S, K, T, r, sigma) with T > 0 and sigma > 0 the put
\* delta is the call delta minus 1 and both legs have the same gamma; a row
\* whose legs have equal gamma and equal open interest has
\* Call_GEX = -Put_GEX and Net_GEX = 0.
C16_PutCallRelation ==
    pc = "greeks" =>
        /\ ~Degenerate =>
              /\ out.row.Put_Delta = out.row.Call_Delta - DeltaOne
              /\ out.row.Put_Gamma = out.row.Call_Gamma
        /\ (out.row.Call_Gamma = out.row.Put_Gamma /\ out.row.Call_OI = out.row.Put_OI) =>
              /\ out.row.Call_GEX = -out.row.Put_GEX
              /\ out.row.Net_GEX = 0

\* At the money, one day out, equal open interest: the exposures cancel.
C16_Witness ==
    /\ pc = "greeks"
    /\ req.S = 24500 /\ req.K = 24500 /\ req.T = 1 /\ req.sigma = 15 * 100
    /\ req.call_oi = 2 /\ req.put_oi = 2
    /\ out.row.Call_Delta > 0 /\ out.row.Put_Delta = out.row.Call_Delta - DeltaOne
    /\ out.row.Call_GEX > 0 /\ out.row.Net_GEX = 0


----------------------------------------------------------------------------
(* Claims about the exposure columns, checked under Spec.                  *)

\* S * 0.01 for the price of the returned table.
PriceHundredth == out.underlying_price \div 100

\* C17: in every returned row Call_GEX = Call_Gamma * Call_OI * S^2 * 0.01,
\* Put_GEX is minus the same product of the put, Call_DEX and Put_DEX are
\* delta * OI * S * 0.01 with no further sign flip, and the Net columns
\* are the sums; with gammas and open interest that are not negative,
\* Call_GEX >= 0 and Put_GEX <= 0.
C17_ExposureFormulas ==
    Returned =>
        \A row \in Range(out.df) :
            /\ row.Call_GEX = row.Call_Gamma * row.Call_OI * PriceHundredth * PriceHundredth
            /\ row.Put_GEX = -(row.Put_Gamma * row.Put_OI * PriceHundredth * PriceHundredth)
            /\ row.Net_GEX = row.Call_GEX + row.Put_GEX
            /\ row.Call_DEX = row.Call_Delta * row.Call_OI * PriceHundredth
            /\ row.Put_DEX = row.Put_Delta * row.Put_OI * PriceHundredth
            /\ row.Net_DEX = row.Call_DEX + row.Put_DEX
            /\ (row.Call_Gamma >= 0 /\ row.Put_Gamma >= 0 /\ row.Call_OI >= 0 /\ row.Put_OI >= 0)
                  => (row.Call_GEX >= 0 /\ row.Put_GEX <= 0)

\* A returned row with a positive call and a negative put exposure of both kinds.
C17_Witness ==
    /\ Returned
    /\ \E row \in Range(out.df) :
          /\ row.Call_GEX > 0 /\ row.Put_GEX < 0
          /\ row.Call_DEX > 0 /\ row.Put_DEX < 0


----------------------------------------------------------------------------
(* Claims about the parsed strikes, checked under SpecParse.               *)

\* C18 as stated: every record the parser returns has a strike above 0; an
\* entry whose key parses to a value <= 0, or does not parse, is dropped.
C18_StrikePositive ==
    (pc = "parse" /\ out.st = "ok") =>
        \A row \in Range(out.parsed_data) : row.Strike > 0


----------------------------------------------------------------------------
(* Repeated calls of the two table functions on one table.                 *)

MaxCalls == 3              \* calls made on one table

\* A call that sorts the caller's table itself.
SortedInPlace(df) == [df EXCEPT !.rows = SortByStrike(@)]

\* gex_calculator.py 433-439: the caller's table after the call. sort_values
\* and .copy() build a new DataFrame, and nothing is assigned into df.
DfAfterFlow(df) == df

\* gex_calculator.py 470-474: sort_values and reset_index(drop=True) build a
\* new DataFrame too; df_sorted.loc is only read.
DfAfterFlip(df) == df

\* Tables of at most two rows, of every shape.
SessionTables == {t \in TableShapes : Len(t[2]) <= 2}

\* The script holds a table; no call has been made on it.
Load ==
    /\ pc = "idle"
    /\ \E t \in SessionTables, futures_ltp \in {24500, 24525} :
          \E df \in {TableOf(t[1], t[2])} :
             req' = [df |-> df, given |-> df, futures_ltp |-> futures_ltp]
    /\ out' = [first_flow |-> None, last_flow |-> None,
               first_flip |-> None, last_flip |-> None, calls |-> 0]
    /\ pc' = "session"

FlowAgain ==
    /\ pc = "session"
    /\ out.calls < MaxCalls
    /\ \E r \in {calculate_dual_gex_dex_flow(req.df, req.futures_ltp)} :
          out' = [out EXCEPT !.first_flow = IF @ = None THEN r ELSE @,
                             !.last_flow = r,
                             !.calls = @ + 1]
    /\ req' = [req EXCEPT !.df = DfAfterFlow(@)]
    /\ pc' = pc

FlipAgain ==
    /\ pc = "session"
    /\ out.calls < MaxCalls
    /\ \E r \in {detect_gamma_flip_zones(req.df)} :
          out' = [out EXCEPT !.first_flip = IF @ = None THEN r ELSE @,
                             !.last_flip = r,
                             !.calls = @ + 1]
    /\ req' = [req EXCEPT !.df = DfAfterFlip(@)]
    /\ pc' = pc

NextSession == Load \/ FlowAgain \/ FlipAgain \/ Rerun

SpecSession == Init /\ [][NextSession]_vars

----------------------------------------------------------------------------
(* Claims about the arguments of the Black-Scholes calls, under Spec.      *)

\* The table was returned with Greeks computed by Black-Scholes.
ComputedGreeks == Returned /\ ~has_api_greeks(out.df)

\* The (T, sigma) of the four calls made for a row (gex_calculator.py
\* 354-376): T in days, sigma in 1/IVOne.
BlackScholesArgs(row) ==
    {[T |-> out.atm_info.days_to_expiry, sigma |-> FlooredIV(row.Call_IV)],
     [T |-> out.atm_info.days_to_expiry, sigma |-> FlooredIV(row.Put_IV)]}

\* C20: every Black-Scholes call of the pipeline has T >= 1/365 and
\* sigma >= 0.01, also for an expiry that is today or past and for an IV of
\* 0, so neither function takes its return-0 branch.
C20_NeverDegenerate ==
    ComputedGreeks =>
        \A row \in Range(out.df) : \A c \in BlackScholesArgs(row) :
            /\ c.T >= 1
            /\ c.sigma >= IVOne \div 100
            /\ ~(c.T <= 0 \/ c.sigma <= 0)

\* An expiry that is today, and a row whose IV is 0.
C20_Witness ==
    /\ ComputedGreeks
    /\ ChosenExpiry = IsoDate(0)
    /\ out.atm_info.days_to_expiry = 1
    /\ \E row \in Range(out.df) : row.Call_IV = 0


----------------------------------------------------------------------------
(* Claims about the source of the Greeks, checked under Spec.              *)

\* The four Greek columns of the row are the provider's values.
GreeksFromProvider(row) ==
    /\ row.Call_Gamma = row.Call_Gamma_API /\ row.Put_Gamma = row.Put_Gamma_API
    /\ row.Call_Delta = row.Call_Delta_API /\ row.Put_Delta = row.Put_Delta_API

\* The four Greek columns of the row are the Black-Scholes values for the
\* returned price, the days to expiry and the row's floored IVs.
GreeksFromBlackScholes(row) ==
    LET S == out.underlying_price
        T == out.atm_info.days_to_expiry
    IN  /\ row.Call_Gamma = calculate_gamma(S, row.Strike, T, RiskFreeRate, FlooredIV(row.Call_IV))
        /\ row.Put_Gamma = calculate_gamma(S, row.Strike, T, RiskFreeRate, FlooredIV(row.Put_IV))
        /\ row.Call_Delta =
              calculate_delta(S, row.Strike, T, RiskFreeRate, FlooredIV(row.Call_IV), "call")
        /\ row.Put_Delta =
              calculate_delta(S, row.Strike, T, RiskFreeRate, FlooredIV(row.Put_IV), "put")

\* C21: the source of the Greeks is chosen once for the table, from the
\* provider's call gammas alone: if a returned row has a Call_Gamma_API other
\* than 0, all four Greek columns of every row are the provider's values
\* (also in rows whose provider Greeks are 0 or absent); otherwise all four
\* columns of every row are computed with Black-Scholes.
C21_OneGreekSource ==
    Returned =>
        IF \E row \in Range(out.df) : row.Call_Gamma_API # 0
        THEN \A row \in Range(out.df) : GreeksFromProvider(row)
        ELSE \A row \in Range(out.df) : GreeksFromBlackScholes(row)

\* A row with provider Greeks next to a row without any, whose Black-Scholes
\* delta would not be 0: both rows carry the provider's values.
C21_Witness ==
    /\ Returned
    /\ \E r1, r2 \in Range(out.df) :
          /\ r1.Call_Gamma_API # 0
          /\ r2.Call_Gamma_API = 0 /\ r2.Call_Delta_API = 0
          /\ r2.Call_Gamma = 0 /\ r2.Call_Delta = 0 /\ r2.Put_Delta = 0
          /\ ~GreeksFromBlackScholes(r2)


----------------------------------------------------------------------------
(* fetch_and_calculate_gex_dex step by step: its two requests.             *)
(* pc is the position inside the call, req.log the requests sent so far,   *)
(* in order, and out what the call has produced.                           *)

MaxExpiries == 3           \* expiries in the provider's list

\* The first n expiries of the provider, a week apart.
ExpiryAnswer(n) == [j \in 1..n |-> IsoDate(2 + 7 * (j - 1))]

\* gex_calculator.py 287: the expiry-list request goes out.
CallExpiryList ==
    /\ pc = "idle"
    /\ \E symbol \in Symbols, expiry_index \in {0, 1, 2} :
          req' = [symbol |-> symbol, strikes_range |-> 1, expiry_index |-> expiry_index,
                  log |-> <<[endpoint |-> "expirylist"]>>,
                  expiries |-> None, chain |-> None, now |-> [tod |-> 1, tick |-> TRUE]]
    /\ out' = [st |-> "running", parsing |-> FALSE]
    /\ pc' = "expirylist"

\* gex_calculator.py 64-115: the request fails, or answers with a list;
\* get_expiry_list raises for an empty list (94-95), and the call ends
\* (421-428).
ExpiryListReturns ==
    /\ pc = "expirylist"
    /\ \E ok \in BOOLEAN, n \in 0..MaxExpiries :
          /\ ~ok => n = 0
          /\ req' = [req EXCEPT !.expiries = [ok |-> ok, list |-> ExpiryAnswer(n)]]
          /\ IF ok /\ n > 0
             THEN pc' = "select" /\ out' = out
             ELSE pc' = "done" /\ out' = [st |-> "raised", parsing |-> FALSE]

\* gex_calculator.py 290-300: the expiry is selected and the option-chain
\* request goes out with it.
CallOptionChain ==
    /\ pc = "select"
    /\ req' = [req EXCEPT !.log = Append(@,
                  [endpoint |-> "optionchain",
                   expiry |-> SelectedExpiry(req.expiries.list, req.expiry_index)])]
    /\ out' = out
    /\ pc' = "optionchain"

\* gex_calculator.py 139-172: the request fails and the call ends (421-428),
\* or it answers with an option chain.
OptionChainReturns ==
    /\ pc = "optionchain"
    /\ \E ok \in BOOLEAN, chain \in {c \in Chains : Len(c) <= 1} :
          /\ ~ok => chain = <<>>
          /\ req' = [req EXCEPT !.chain =
                        [ok |-> ok, data |-> [last_price |-> Num(24500),
                                              oc |-> MapValue(chain, EntryOf)]]]
          /\ IF ok
             THEN pc' = "parse" /\ out' = [st |-> "running", parsing |-> TRUE]
             ELSE pc' = "done" /\ out' = [st |-> "raised", parsing |-> FALSE]

\* gex_calculator.py 304-428: parsing and calculation, to the return or the
\* raise.
ParseAndCalculate ==
    /\ pc = "parse"
    /\ \E t \in {CalculateTable([symbol |-> req.symbol, strikes_range |-> req.strikes_range,
                                 expiry_index |-> req.expiry_index, expiries |-> req.expiries,
                                 chain |-> req.chain, now |-> req.now])} :
          out' = [st |-> IF t.st = "ok" THEN "ok" ELSE "raised", parsing |-> TRUE]
    /\ req' = req
    /\ pc' = "done"

NextRequests ==
    \/ CallExpiryList
    \/ ExpiryListReturns
    \/ CallOptionChain
    \/ OptionChainReturns
    \/ ParseAndCalculate
    \/ Rerun

SpecRequests == Init /\ [][NextRequests]_vars

\* The requests sent to an endpoint so far.
RequestsTo(endpoint) == SelectSeq(req.log, LAMBDA m : m.endpoint = endpoint)

\* C22: the option-chain request is sent only after the expiry-list request
\* returned a list that is not empty; each endpoint gets at most one request
\* per call; the expiry sent is the element of the list at expiry_index, or
\* the first element when expiry_index >= the length of the list; a failed
\* request ends the call with an error before parsing starts.
C22_RequestOrder ==
    pc \in {"expirylist", "select", "optionchain", "parse", "done"} =>
        /\ Len(RequestsTo("expirylist")) = 1
        /\ Len(RequestsTo("optionchain")) <= 1
        /\ req.log[1].endpoint = "expirylist"
        /\ \A m \in Range(RequestsTo("optionchain")) :
              /\ req.expiries # None /\ req.expiries.ok /\ req.expiries.list # <<>>
              /\ m.expiry \in Range(req.expiries.list)
              /\ m.expiry = IF req.expiry_index >= Len(req.expiries.list)
                            THEN req.expiries.list[1]
                            ELSE req.expiries.list[req.expiry_index + 1]
        /\ (req.expiries # None /\ (~req.expiries.ok \/ req.expiries.list = <<>>)) =>
              /\ pc = "done" /\ out.st = "raised" /\ ~out.parsing
              /\ RequestsTo("optionchain") = <<>>
        /\ (req.chain # None /\ ~req.chain.ok) =>
              pc = "done" /\ out.st = "raised" /\ ~out.parsing
        /\ out.parsing => (req.expiries.ok /\ req.chain # None /\ req.chain.ok)

\* The second of two expiries was asked for and sent, and the call returned.
C22_Witness ==
    /\ pc = "done" /\ out.st = "ok"
    /\ req.expiry_index = 1
    /\ Len(req.expiries.list) >= 2
    /\ Len(req.log) = 2
    /\ req.log[2].expiry = req.expiries.list[2]


----------------------------------------------------------------------------
(* The dashboard's authentication (streamlit_app.py 21-71, 95-97, 148-152).*)
(* req is st.session_state: the keys it has and their values (the value of *)
(* an absent key is a filler that is never read). A username is a sequence *)
(* of characters, a password a string compared as a whole. out is what the *)
(* last script run did, with the submission that logged the user in.       *)

Demo == <<"d", "e", "m", "o">>
Premium == <<"p", "r", "e", "m", "i", "u", "m">>
Niyas == <<"n", "i", "y", "a", "s">>

\* streamlit_app.py 27-31.
UserNames == {Demo, Premium, Niyas}

UserPassword(username) ==
    CASE username = Demo    -> "demo123"
      [] username = Premium -> "premium123"
      [] username = Niyas   -> "nyztrade123"

\* str.lower() on the letters the model types.
UpperLetters == <<"D", "E", "M", "O", "N", "I", "Y", "A", "S">>
LowerLetters == <<"d", "e", "m", "o", "n", "i", "y", "a", "s">>

LowerChar(c) ==
    IF \E i \in DOMAIN UpperLetters : UpperLetters[i] = c
    THEN LowerLetters[CHOOSE i \in DOMAIN UpperLetters : UpperLetters[i] = c]
    ELSE c

\* str.strip(): white space at both ends goes, inside it stays.
RECURSIVE StripLeft(_)
StripLeft(t) == IF t # <<>> /\ Head(t) = " " THEN StripLeft(Tail(t)) ELSE t

RECURSIVE StripRight(_)
StripRight(t) ==
    IF t # <<>> /\ t[Len(t)] = " " THEN StripRight(SubSeq(t, 1, Len(t) - 1)) ELSE t

\* streamlit_app.py 24: .strip().lower().
StripLower(t) == MapValue(StripRight(StripLeft(t)), LowerChar)

\* A test that looks at the username alone.
UsernameOnly(username, password) == username \in UserNames

\* streamlit_app.py 33.
CredentialsOk(username, password) ==
    username \in UserNames /\ password = UserPassword(username)

NoKeys ==
    [keys |-> {},
     val |-> [username |-> <<>>, password |-> "", password_correct |-> FALSE,
              authenticated_user |-> <<>>]]

\* st.session_state[key] = value, and del st.session_state[key].
SetKey(state, key, value) ==
    [keys |-> state.keys \cup {key}, val |-> [state.val EXCEPT ![key] = value]]

DelKey(state, key) ==
    [keys |-> state.keys \ {key}, val |-> [state.val EXCEPT ![key] = NoKeys.val[key]]]

\* streamlit_app.py 23-38: the Login button's callback.
password_entered(state) ==
    Let(StripLower(state.val.username), LAMBDA username :
        IF CredentialsOk(username, state.val.password)
        THEN DelKey(SetKey(SetKey(state, "password_correct", TRUE),
                           "authenticated_user", username), "password")
        ELSE SetKey(state, "password_correct", FALSE))

\* The two text inputs of the form put their keys into the session state.
WithFormWidgets(state) ==
    [keys |-> state.keys \cup {"username", "password"}, val |-> state.val]

\* streamlit_app.py 40-71: check_password, as the view it renders.
check_password(state) ==
    IF "password_correct" \notin state.keys THEN "login"
    ELSE IF ~state.val.password_correct THEN "login_error"
    ELSE "dashboard"

\* One script run, to st.stop() at the gate (95-97) or through the rest of
\* the script: the session state after it, the view, and whether the part
\* after the gate ran.
RunScript(state) ==
    Let(check_password(state), LAMBDA view :
        [state |-> IF view = "dashboard" THEN state ELSE WithFormWidgets(state),
         view |-> view,
         after_gate |-> view = "dashboard"])

TypedUsernames ==
    {<<>>, <<" ">>, Demo, <<" ", "D", "e", "m", "o", " ">>, <<"d", "e", " ", "m", "o">>,
     Niyas, <<"g", "u", "e", "s", "t">>}

TypedPasswords == {"", "demo123", "Demo123", "nyztrade123", "premium123", "wrong"}

\* What a run leaves in out; login is the submission that logged the user in.
Rendered(r, login) == [view |-> r.view, after_gate |-> r.after_gate, login |-> login]

\* The first run of a session.
FirstRun ==
    /\ pc = "idle"
    /\ \E r \in {RunScript(NoKeys)} :
          /\ req' = r.state
          /\ out' = Rendered(r, None)
    /\ pc' = "run"

\* The user fills a field of the form; the script runs again.
TypeUsername ==
    /\ pc # "idle" /\ out.view # "dashboard"
    /\ \E username \in TypedUsernames :
          \E r \in {RunScript(SetKey(req, "username", username))} :
             /\ req' = r.state
             /\ out' = Rendered(r, out.login)
    /\ pc' = "run"

TypePassword ==
    /\ pc # "idle" /\ out.view # "dashboard"
    /\ \E password \in TypedPasswords :
          \E r \in {RunScript(SetKey(req, "password", password))} :
             /\ req' = r.state
             /\ out' = Rendered(r, out.login)
    /\ pc' = "run"

\* The Login button: its callback, then the script run (48, 68).
ClickLogin ==
    /\ pc # "idle" /\ out.view # "dashboard"
    /\ \E r \in {RunScript(password_entered(req))} :
          /\ req' = r.state
          /\ out' = Rendered(r, IF r.view = "dashboard"
                                THEN [username |-> req.val.username,
                                      password |-> req.val.password]
                                ELSE out.login)
    /\ pc' = "submit"

\* Any other interaction: the script runs again on the same session state.
Refresh ==
    /\ pc # "idle"
    /\ \E r \in {RunScript(req)} :
          /\ req' = r.state
          /\ out' = Rendered(r, out.login)
    /\ pc' = "run"

\* streamlit_app.py 149-152: the run of the click passes the gate, deletes
\* every key and asks for a new run, which is made on the empty state.
Logout ==
    /\ pc # "idle"
    /\ RunScript(req).after_gate
    /\ \E r \in {RunScript(NoKeys)} :
          /\ req' = r.state
          /\ out' = Rendered(r, None)
    /\ pc' = "logout"

NextAuth ==
    \/ FirstRun
    \/ TypeUsername
    \/ TypePassword
    \/ ClickLogin
    \/ Refresh
    \/ Logout
    \/ Rerun

SpecAuth == Init /\ [][NextAuth]_vars

PasswordCorrect == "password_correct" \in req.keys /\ req.val.password_correct

\* C23: the part of the script after the authentication check runs only in
\* a run where password_correct is true; password_correct is true only
\* through a submission whose trimmed, lower-cased username is a known user
\* and whose password is that user's, which also removed the password from
\* the session state; a failed submission leaves it false; after Logout no
\* key of the session is left and the login form is shown.
C23_Gate ==
    pc # "idle" =>
        /\ out.after_gate => PasswordCorrect
        /\ out.view = "dashboard" <=> out.after_gate
        /\ PasswordCorrect =>
              /\ out.login # None
              /\ StripLower(out.login.username) \in UserNames
              /\ out.login.password = UserPassword(StripLower(out.login.username))
              /\ "authenticated_user" \in req.keys
              /\ req.val.authenticated_user = StripLower(out.login.username)
              /\ "password" \notin req.keys
        /\ (pc = "submit" /\ ~PasswordCorrect) =>
              /\ "password_correct" \in req.keys
              /\ out.view = "login_error"
        /\ pc = "logout" =>
              /\ req.keys \subseteq {"username", "password"}
              /\ req.val = NoKeys.val
              /\ out.view = "login" /\ ~out.after_gate

\* " Demo " with demo123 was submitted and the dashboard ran.
C23_Witness ==
    /\ pc = "submit"
    /\ out.after_gate /\ PasswordCorrect
    /\ out.login.username = <<" ", "D", "e", "m", "o", " ">>
    /\ req.val.authenticated_user = Demo

====
